---------------------------- MODULE Spec2Model ----------------------------
(***************************************************************************)
(* A model of src/scientist.go: one trial of Run(e, name).                 *)
(*                                                                         *)
(* The experiment e (its behaviors map, its ignore rules and its hooks) is *)
(* an input: Init draws it from bounded sets, and every call of a behavior *)
(* or of a hook draws what that call produces.  Run is followed statement  *)
(* by statement through pc; a run-time panic of Run itself (makeslice with *)
(* a negative length, index out of range) ends the trial in pc="panicked". *)
(*                                                                         *)
(* An error value is modelled by its message text, a value by a string;    *)
(* Started and Runtime of an Observation (wall-clock readings) are left    *)
(* out, no statement of Run reads them.                                    *)
(***************************************************************************)
EXTENDS Integers, Sequences, FiniteSets, TLC

(* ------------------------------ bounds -------------------------------- *)

\* the largest number of candidate behaviors an experiment registers
MaxCandidates == 2

\* the largest number of ignore rules an experiment registers
MaxIgnores == 2

(* --------------------------- values, names ---------------------------- *)

\* Go's nil: an absent value, an absent error, a nil func, a nil pointer
Nil == "<nil>"

controlBehavior == "control"

\* the names an experiment may register, in registration order
AllNames == <<controlBehavior, "candidate", "candidate2", "candidate3", "candidate4">>

ExperimentName == "exp"

\* what a call of a behavior does: it returns (value, err), or it panics
\* with a payload of some dynamic type (ptype) that prints as ptext: a
\* string, an error, a value of another type (say type code string), nil
Outcomes ==
    { [kind |-> "return", value |-> "5", err |-> Nil,    ptype |-> Nil,      ptext |-> Nil],
      [kind |-> "return", value |-> Nil, err |-> "boom", ptype |-> Nil,      ptext |-> Nil],
      [kind |-> "panic",  value |-> Nil, err |-> Nil,    ptype |-> "string", ptext |-> "boom"],
      [kind |-> "panic",  value |-> Nil, err |-> Nil,    ptype |-> "error",  ptext |-> "boom"],
      [kind |-> "panic",  value |-> Nil, err |-> Nil,    ptype |-> "other",  ptext |-> "boom"],
      [kind |-> "panic",  value |-> Nil, err |-> Nil,    ptype |-> "nil",    ptext |-> Nil] }

\* what a call of a hook (comparator, ignore rule) returns: (bool, error)
HookOutcomes == [ok : BOOLEAN, err : {Nil, "hookerr"}]

\* what beforeRun and publisher return: error
HookErrors == {Nil, "hookerr"}

\* no behavior has been called
NoOutcome == [kind |-> Nil, value |-> Nil, err |-> Nil, ptype |-> Nil, ptext |-> Nil]

\* no panic in flight: what recover() returns then
NoPanic == [ptype |-> Nil, ptext |-> Nil]

PanicNilError == [ptype |-> "error", ptext |-> "panic called with nil argument"]

\* What recover() returns in runBehavior's deferred func after b() produced
\* `out`.  panic(nil): recover() returns nil (Go before 1.21, or
\* GODEBUG=panicnil=1) or a *runtime.PanicNilError (Go 1.21 and later); the
\* source fixes no toolchain, so both are outcomes of the build.
Recover(out) ==
    IF out.kind # "panic" THEN {NoPanic}
    ELSE IF out.ptype = "nil" THEN {NoPanic, PanicNilError}
    ELSE {[ptype |-> out.ptype, ptext |-> out.ptext]}

(* ------------------------------- state -------------------------------- *)

VARIABLES
    behaviors,   \* e.behaviors: name -> "func", the registered behaviors
    numIgnores,  \* len(e.ignores)
    name,        \* Run's parameter: the control's name
    pc,          \* Run's position
    r,           \* Run's local r, the Result
    i,           \* Run's local i
    todo,        \* the keys the range over e.behaviors has yet to yield
    rule,        \* ignoring's position: how many ignore rules it has called
    invoked,     \* history: the names of the behaviors called, in order
    produced,    \* history: what the control behavior produced
    last,        \* history: what the candidate observed last produced, kept
                 \* until its Observation is compared
    calls,       \* history: how often each of Run's own hooks was called
    cmpMatched,  \* history: candidates the comparator returned (true, nil) for
    cmpFailed,   \* history: candidates the comparator returned an error for
    ignFailed,   \* history: candidates an ignore rule returned an error for
    published,   \* history: the Result handed to the publisher
    reported,    \* history: the batch handed to the errorReporter
    hookFailed,  \* history: which of beforeRun and publisher returned an error
    args,        \* history: what the comparator or ignore rule called last
                 \* was passed
    answer       \* history: which ignore rule was called in the last step, and
                 \* what it returned

vars == <<behaviors, numIgnores, name, pc, r, i, todo, rule, invoked, produced,
          last, calls, cmpMatched, cmpFailed, ignFailed, published, reported,
          hookFailed, args, answer>>

(* ----------------------------- operators ------------------------------ *)

\* a nil *Observation
NilObs == [Name |-> Nil, Value |-> Nil, Err |-> Nil]

\* make([]*Observation, n)
MakeSlice(n) == [k \in 1..n |-> NilObs]

\* e.resultErr(op, err)
resultErr(op, err) == [Operation |-> op, Experiment |-> ExperimentName, Err |-> err]

behaviorNotFound(bname) ==
    "Behavior " \o bname \o " not found for experiment " \o ExperimentName

\* the deferred func's type switch on the recovered value
recoveredErr(er) ==
    CASE er.ptype = "string" -> er.ptext      \* errors.New(t)
      [] er.ptype = "error"  -> er.ptext      \* err = t
      [] OTHER               -> er.ptext      \* fmt.Errorf("%v", t)

\* a slip in runBehavior: value, _ = b()
runBehaviorDropsErr(out, er) ==
    IF out.kind = "panic"
    THEN IF er # NoPanic
         THEN [value |-> Nil, err |-> recoveredErr(er)]
         ELSE [value |-> Nil, err |-> Nil]
    ELSE [value |-> out.value, err |-> Nil]

\* runBehavior: b() produced `out`, recover() returned `er`.  When b()
\* panics the assignment value, err = b() never happens: both results keep
\* their zero value unless the deferred func sets them.
runBehavior(out, er) ==
    IF out.kind = "panic"
    THEN IF er # NoPanic
         THEN [value |-> Nil, err |-> recoveredErr(er)]
         ELSE [value |-> Nil, err |-> Nil]
    ELSE [value |-> out.value, err |-> out.err]

\* e.behaviors[name], nil for a name that is not registered
lookup(bname) == IF bname \in DOMAIN behaviors THEN behaviors[bname] ELSE Nil

\* a slip in observe: a behavior that is passed in is taken for a missing one
callsBehaviorLookupOnly(bname, b) == b = Nil /\ lookup(bname) # Nil

\* whether observe(e, name, b) finds a behavior to call
callsBehavior(bname, b) == (IF b = Nil THEN lookup(bname) ELSE b) # Nil

\* observe(e, name, b), b() producing `out` and recover() `er` if it is called
observe(bname, b, out, er) ==
    IF ~callsBehavior(bname, b)
    THEN [Name |-> bname, Value |-> Nil, Err |-> behaviorNotFound(bname)]
    ELSE LET v == runBehavior(out, er)
         IN  [Name |-> bname, Value |-> v.value, Err |-> v.err]

\* a slip in mismatching: return matching, err
mismatchingNotNegated(cmp) == [mismatched |-> cmp.ok, err |-> cmp.err]

\* mismatching: the comparator returned `cmp`
mismatching(cmp) == [mismatched |-> ~cmp.ok, err |-> cmp.err]

\* a slip in Run: the comparator's error is recorded, mismatched is left
\* as returned
runMismatchedAsReturned(mm) == mm.mismatched

\* lines 75-79: what Run makes of mismatching's results
runMismatched(mm) == IF mm.err # Nil THEN TRUE ELSE mm.mismatched

\* a slip in ignoring: ok is looked at before err
ignoringRuleOkFirst(out) ==
    IF out.ok THEN [return |-> TRUE, ignored |-> TRUE, err |-> Nil]
    ELSE IF out.err # Nil THEN [return |-> TRUE, ignored |-> FALSE, err |-> out.err]
    ELSE [return |-> FALSE, ignored |-> FALSE, err |-> Nil]

\* a slip in ignoring: a rule that says "ignore" does not end the loop
ignoringRuleNoReturn(out) ==
    IF out.err # Nil THEN [return |-> TRUE, ignored |-> FALSE, err |-> out.err]
    ELSE [return |-> FALSE, ignored |-> out.ok, err |-> Nil]

\* ignoring's loop body: an ignore rule returned `out`
ignoringRule(out) ==
    IF out.err # Nil THEN [return |-> TRUE, ignored |-> FALSE, err |-> out.err]
    ELSE IF out.ok THEN [return |-> TRUE, ignored |-> TRUE, err |-> Nil]
    ELSE [return |-> FALSE, ignored |-> FALSE, err |-> Nil]

\* lines 85-89: what Run makes of ignoring's results
runIgnored(ig) == IF ig.err # Nil THEN FALSE ELSE ig.ignored

\* route putting the candidate in front of its class
routeInFront(res, c, ignored) ==
    IF ignored
    THEN [res EXCEPT !.Ignored = <<c>> \o @]
    ELSE [res EXCEPT !.Mismatched = <<c>> \o @]

\* a slip in Run: the else of lines 93-95 is missing
routeNoElse(res, c, ignored) ==
    IF ignored
    THEN [res EXCEPT !.Ignored = Append(@, c), !.Mismatched = Append(@, c)]
    ELSE [res EXCEPT !.Mismatched = Append(@, c)]

\* lines 91-95: the mismatched candidate c goes to Ignored or to Mismatched
route(res, c, ignored) ==
    IF ignored
    THEN [res EXCEPT !.Ignored = Append(@, c)]
    ELSE [res EXCEPT !.Mismatched = Append(@, c)]

\* withErr putting the new error in front
withErrInFront(res, op, err) ==
    IF err # Nil THEN [res EXCEPT !.Errors = <<resultErr(op, err)>> \o @] ELSE res

\* withErr with the append of line 99 left out
withErrButPublish(res, op, err) ==
    IF err # Nil /\ op # "publish"
    THEN [res EXCEPT !.Errors = Append(@, resultErr(op, err))] ELSE res

\* withErr with the append left out
withErrSwallows(res, op, err) == res

\* r.Errors = append(r.Errors, e.resultErr(op, err)) if err != nil
withErr(res, op, err) ==
    IF err # Nil THEN [res EXCEPT !.Errors = Append(@, resultErr(op, err))] ELSE res

\* lines 58-62: the slices of a Result for numCandidates candidates
allocate(res, control, numCandidates) ==
    [res EXCEPT !.Control = control,
                !.Candidates = MakeSlice(numCandidates),
                !.Ignored = <<>>,
                !.Mismatched = <<>>,
                !.Observations = [MakeSlice(numCandidates + 1) EXCEPT ![1] = control]]

\* a slip in Run: r.Observations[i] = c before i += 1
storeBeforeIncrement(res, idx, c) ==
    [res EXCEPT !.Candidates[idx + 1] = c, !.Observations[idx + 1] = c]

\* a slip in Run: the candidate is not stored in r.Observations
storeCandidateOnly(res, idx, c) ==
    [res EXCEPT !.Candidates[idx + 1] = c]

\* store that also records the behavior's own error as a ResultError
storeReportsErr(res, idx, c) ==
    withErr([res EXCEPT !.Candidates[idx + 1] = c, !.Observations[idx + 2] = c],
            "observe", c.Err)

\* lines 71-73: r.Candidates[i] = c; i += 1; r.Observations[i] = c
store(res, idx, c) ==
    [res EXCEPT !.Candidates[idx + 1] = c, !.Observations[idx + 2] = c]

\* a slip in mismatching and ignoring: the hooks are passed the errors
hookArgsErrs(control, candidate) == <<control.Err, candidate.Err>>

\* lines 110 and 116: what the comparator and the ignore rules are passed
hookArgs(control, candidate) == <<control.Value, candidate.Value>>

\* a slip in Run: the errorReporter is passed the errors collected before
\* the publisher was called
errorBatchBeforePublish(res) == published.Errors

\* line 103: what the errorReporter is passed
errorBatch(res) == res.Errors

\* no ignore rule was called in the last step
NoAnswer == [rule |-> 0, ok |-> FALSE, err |-> Nil]

\* the elements of a slice
Elems(s) == {s[k] : k \in 1..Len(s)}

\* the candidate the loop body is at: r.Candidates[i-1]
current == r.Candidates[i]

(* -------------------------------- Init -------------------------------- *)

EmptyResult == [Control |-> NilObs, Observations |-> <<>>, Candidates |-> <<>>,
                Ignored |-> <<>>, Mismatched |-> <<>>, Errors |-> <<>>]

Init ==
    /\ \E ctl \in SUBSET {controlBehavior}, n \in 0..MaxCandidates :
          behaviors = [b \in ctl \cup {AllNames[k] : k \in 2..(n + 1)} |-> "func"]
    /\ numIgnores \in 0..MaxIgnores
    /\ name = controlBehavior
    /\ pc = "start"
    /\ r = EmptyResult
    /\ i = 0
    /\ todo = {}
    /\ rule = 0
    /\ invoked = <<>>
    /\ produced = NoOutcome
    /\ last = NoOutcome
    /\ calls = [beforeRun |-> 0, publisher |-> 0, errorReporter |-> 0]
    /\ cmpMatched = {}
    /\ cmpFailed = {}
    /\ ignFailed = {}
    /\ published = EmptyResult
    /\ reported = <<>>
    /\ hookFailed = {}
    /\ args = <<Nil, Nil>>
    /\ answer = NoAnswer

(* ------------------------------ actions ------------------------------- *)

\* lines 51-54: r := Result{Experiment: e}; e.beforeRun()
BeforeRun ==
    /\ pc = "start"
    /\ \E err \in HookErrors :
          /\ r' = withErr(r, "before_run", err)
          /\ hookFailed' = IF err # Nil THEN hookFailed \cup {"before_run"}
                           ELSE hookFailed
    /\ calls' = [calls EXCEPT !.beforeRun = @ + 1]
    /\ pc' = "control"
    /\ answer' = NoAnswer
    /\ UNCHANGED <<args, last, behaviors, numIgnores, name, i, todo, rule,
                   invoked, produced, cmpMatched, cmpFailed, ignFailed,
                   published, reported>>

\* lines 56-64: the control is observed, then the slices are made; make
\* panics when numCandidates is negative
ObserveControl ==
    /\ pc = "control"
    /\ \E out \in Outcomes : \E er \in Recover(out) :
          LET numCandidates == Cardinality(DOMAIN behaviors) - 1
              b       == lookup(name)
              called  == callsBehavior(name, b)
              control == observe(name, b, out, er)
          IN  /\ invoked' = IF called THEN Append(invoked, name) ELSE invoked
              /\ produced' = IF called THEN out ELSE NoOutcome
              /\ IF numCandidates < 0
                 THEN /\ r' = [r EXCEPT !.Control = control]
                      /\ pc' = "panicked"
                      /\ todo' = {}
                 ELSE /\ r' = allocate(r, control, numCandidates)
                      /\ pc' = "loop"
                      /\ todo' = DOMAIN behaviors
    /\ i' = 0
    /\ answer' = NoAnswer
    /\ UNCHANGED <<hookFailed, args, last, behaviors, numIgnores, name, rule,
                   calls, cmpMatched, cmpFailed, ignFailed, published,
                   reported>>

\* lines 65-68: the range yields the control's name: continue
SkipControl ==
    /\ pc = "loop"
    /\ name \in todo
    /\ todo' = todo \ {name}
    /\ answer' = NoAnswer
    /\ UNCHANGED <<hookFailed, args, last, behaviors, numIgnores, name, pc,
                   r, i, rule, invoked, produced, calls, cmpMatched,
                   cmpFailed, ignFailed, published, reported>>

\* lines 65-73: the range yields a candidate's name (in no particular order:
\* e.behaviors is a map); the candidate is observed and stored.  The store
\* r.Candidates[i] panics when i is out of range.
ObserveCandidate ==
    /\ pc = "loop"
    /\ \E bname \in todo \ {name} :
       \E out \in Outcomes : \E er \in Recover(out) :
          LET c == observe(bname, behaviors[bname], out, er)
          IN  /\ invoked' = IF callsBehavior(bname, behaviors[bname])
                            THEN Append(invoked, bname) ELSE invoked
              /\ last' = IF callsBehavior(bname, behaviors[bname]) THEN out ELSE NoOutcome
              /\ todo' = todo \ {bname}
              /\ IF i >= Len(r.Candidates)
                 THEN /\ pc' = "panicked"
                      /\ UNCHANGED <<r, i>>
                 ELSE /\ r' = store(r, i, c)
                      /\ i' = i + 1
                      /\ pc' = "compare"
    /\ answer' = NoAnswer
    /\ UNCHANGED <<hookFailed, args, behaviors, numIgnores, name, rule,
                   produced, calls, cmpMatched, cmpFailed, ignFailed,
                   published, reported>>

\* lines 75-83: mismatching(e, r.Control, c) calls the comparator
Compare ==
    /\ pc = "compare"
    /\ \E cmp \in HookOutcomes :
          LET mm == mismatching(cmp)
          IN  /\ r' = withErr(r, "compare", mm.err)
              /\ pc' = IF runMismatched(mm) THEN "ignore" ELSE "loop"
              /\ cmpMatched' = IF cmp.ok /\ cmp.err = Nil
                               THEN cmpMatched \cup {current.Name} ELSE cmpMatched
              /\ cmpFailed' = IF cmp.err # Nil
                              THEN cmpFailed \cup {current.Name} ELSE cmpFailed
    /\ rule' = 0
    /\ last' = NoOutcome
    /\ args' = hookArgs(r.Control, current)
    /\ answer' = NoAnswer
    /\ UNCHANGED <<hookFailed, behaviors, numIgnores, name, i, todo, invoked,
                   produced, calls, ignFailed, published, reported>>

\* lines 115-124, then 85-95 when ignoring returns: ignoring calls its next
\* rule
IgnoreRule ==
    /\ pc = "ignore"
    /\ rule < numIgnores
    /\ \E out \in HookOutcomes :
          LET ig == ignoringRule(out)
          IN  /\ IF ig.return
                 THEN /\ r' = route(withErr(r, "ignore", ig.err), current, runIgnored(ig))
                      /\ pc' = "loop"
                      /\ rule' = 0
                 ELSE /\ rule' = rule + 1
                      /\ UNCHANGED <<r, pc>>
              /\ ignFailed' = IF out.err # Nil
                              THEN ignFailed \cup {current.Name} ELSE ignFailed
              /\ answer' = [rule |-> rule + 1, ok |-> out.ok, err |-> out.err]
    /\ args' = hookArgs(r.Control, current)
    /\ UNCHANGED <<hookFailed, last, behaviors, numIgnores, name, i, todo,
                   invoked, produced, calls, cmpMatched, cmpFailed,
                   published, reported>>

\* line 126, then 85-95: no rule is left, ignoring returns false, nil
IgnoreNone ==
    /\ pc = "ignore"
    /\ rule >= numIgnores
    /\ LET ig == [ignored |-> FALSE, err |-> Nil]
       IN  r' = route(withErr(r, "ignore", ig.err), current, runIgnored(ig))
    /\ pc' = "loop"
    /\ rule' = 0
    /\ answer' = NoAnswer
    /\ UNCHANGED <<hookFailed, args, last, behaviors, numIgnores, name, i,
                   todo, invoked, produced, calls, cmpMatched, cmpFailed,
                   ignFailed, published, reported>>

\* lines 98-100: the loop is over; e.publisher(r)
Publish ==
    /\ pc = "loop"
    /\ todo = {}
    /\ published' = r
    /\ \E err \in HookErrors :
          /\ r' = withErr(r, "publish", err)
          /\ hookFailed' = IF err # Nil THEN hookFailed \cup {"publish"}
                           ELSE hookFailed
    /\ calls' = [calls EXCEPT !.publisher = @ + 1]
    /\ pc' = "report"
    /\ answer' = NoAnswer
    /\ UNCHANGED <<args, last, behaviors, numIgnores, name, i, todo, rule,
                   invoked, produced, cmpMatched, cmpFailed, ignFailed,
                   reported>>

\* lines 102-106: e.errorReporter(r.Errors...) if there are any; return r
Report ==
    /\ pc = "report"
    /\ IF Len(r.Errors) > 0
       THEN /\ reported' = errorBatch(r)
            /\ calls' = [calls EXCEPT !.errorReporter = @ + 1]
       ELSE UNCHANGED <<reported, calls>>
    /\ pc' = "done"
    /\ UNCHANGED <<hookFailed, args, answer, last, behaviors, numIgnores,
                   name, r, i, todo, rule, invoked, produced, cmpMatched,
                   cmpFailed, ignFailed, published>>

Next ==
    \/ BeforeRun
    \/ ObserveControl
    \/ SkipControl
    \/ ObserveCandidate
    \/ Compare
    \/ IgnoreRule
    \/ IgnoreNone
    \/ Publish
    \/ Report

Spec == Init /\ [][Next]_vars

(* ------------------------- reading a Result --------------------------- *)

\* the names of a slice of Observations, in order
NamesOf(s) == [k \in 1..Len(s) |-> s[k].Name]

NameSet(s) == {s[k].Name : k \in 1..Len(s)}

\* Run has returned r
Returned == pc = "done"

\* the candidate called n has been observed, compared and routed
Settled(n) ==
    /\ \E k \in 1..i : r.Candidates[k].Name = n
    /\ ~(pc \in {"compare", "ignore"} /\ current.Name = n)

\* the ResultErrors of r tagged op
ErrorsOf(op) == {k \in 1..Len(r.Errors) : r.Errors[k].Operation = op}

\* the registered names other than the control's, in registration order
RECURSIVE RegisteredFrom(_)
RegisteredFrom(k) ==
    IF k > Len(AllNames) THEN <<>>
    ELSE IF AllNames[k] \in DOMAIN behaviors /\ AllNames[k] # name
         THEN <<AllNames[k]>> \o RegisteredFrom(k + 1)
         ELSE RegisteredFrom(k + 1)

RegistrationOrder == RegisteredFrom(1)

(* ------------------------------- claims ------------------------------- *)

\* C1: the Result Run returns has len(Observations) == len(Candidates) + 1
\* and Observations[0] is the control Observation, Result.Control.
C1_ObservationsShape ==
    Returned =>
        /\ Len(r.Observations) = Len(r.Candidates) + 1
        /\ r.Observations[1] = r.Control

C1_Witness ==
    /\ Returned
    /\ Len(r.Candidates) >= 2
    /\ r.Control.Err # Nil

\* C2: in the Result Run returns every element of Ignored and of Mismatched
\* is an element of Candidates, Ignored and Mismatched are disjoint and list
\* no candidate twice: every candidate is in exactly one of matched (in
\* neither), Ignored, Mismatched.
C2_ExactlyOneClass ==
    Returned =>
        /\ Elems(r.Ignored) \subseteq Elems(r.Candidates)
        /\ Elems(r.Mismatched) \subseteq Elems(r.Candidates)
        /\ Elems(r.Ignored) \cap Elems(r.Mismatched) = {}
        /\ Cardinality(Elems(r.Ignored)) = Len(r.Ignored)
        /\ Cardinality(Elems(r.Mismatched)) = Len(r.Mismatched)
        /\ \A c \in Elems(r.Candidates) :
              Cardinality({cls \in {"matched", "ignored", "mismatched"} :
                  \/ cls = "matched" /\ c \notin Elems(r.Ignored) \cup Elems(r.Mismatched)
                  \/ cls = "ignored" /\ c \in Elems(r.Ignored)
                  \/ cls = "mismatched" /\ c \in Elems(r.Mismatched)}) = 1

C2_Witness ==
    /\ Returned
    /\ Len(r.Ignored) = 1
    /\ Len(r.Mismatched) = 1

\* C3: Run with a control name that is not registered produces a control
\* Observation with the 'behavior not found' error and no value, and the
\* run completes and returns a Result, however many behaviors are
\* registered.
C3_UnregisteredControlCompletes ==
    (name \notin DOMAIN behaviors /\ pc \notin {"start", "control"}) =>
        /\ r.Control.Err = behaviorNotFound(name)
        /\ r.Control.Value = Nil
        /\ pc # "panicked"

\* C4: a candidate the comparator returned an error for ends in Mismatched
\* or in Ignored, never matched, and each such error is recorded as a
\* ResultError tagged 'compare'.
C4_CompareErrorMismatches ==
    /\ \A n \in cmpFailed :
          Settled(n) => n \in NameSet(r.Mismatched) \cup NameSet(r.Ignored)
    /\ Cardinality(ErrorsOf("compare")) = Cardinality(cmpFailed)
    /\ \A k \in ErrorsOf("compare") : r.Errors[k].Err = "hookerr"

C4_Witness ==
    /\ Returned
    /\ \E n \in cmpFailed : n \in NameSet(r.Ignored)
    /\ \E n \in cmpFailed : n \in NameSet(r.Mismatched)

\* C5: a mismatched candidate for which an ignore rule returned an error
\* ends in Mismatched and not in Ignored, and each such error is recorded as
\* a ResultError tagged 'ignore'.
C5_IgnoreErrorNotIgnored ==
    /\ \A n \in ignFailed :
          Settled(n) => /\ n \in NameSet(r.Mismatched)
                        /\ n \notin NameSet(r.Ignored)
    /\ Cardinality(ErrorsOf("ignore")) = Cardinality(ignFailed)
    /\ \A k \in ErrorsOf("ignore") : r.Errors[k].Err = "hookerr"

C5_Witness ==
    /\ Returned
    /\ numIgnores >= 2
    /\ Cardinality(ignFailed) >= 2

\* C6: a candidate the comparator returned (true, nil) for is in neither
\* Ignored nor Mismatched, and no ignore rule is asked about it.
C6_MatchedUnclassified ==
    \A n \in cmpMatched :
        /\ n \notin NameSet(r.Ignored) \cup NameSet(r.Mismatched)
        /\ ~(pc = "ignore" /\ current.Name = n)

C6_Witness ==
    /\ Returned
    /\ numIgnores >= 1
    /\ cmpMatched # {}
    /\ Len(r.Mismatched) >= 1

\* C7: a behavior that panics, control or candidate, yields an Observation
\* with an error and no value, and the panic does not end the trial.
C7_PanicYieldsError ==
    /\ produced.kind = "panic" => (r.Control.Err # Nil /\ r.Control.Value = Nil)
    /\ (pc = "compare" /\ last.kind = "panic") =>
          (current.Err # Nil /\ current.Value = Nil)
    /\ (name \in DOMAIN behaviors) => pc # "panicked"

ControlOf(out) ==
    IF out.kind = "return" THEN {<<out.value, out.err>>}
    ELSE IF out.ptype = "nil" THEN {<<Nil, Nil>>, <<Nil, PanicNilError.ptext>>}
    ELSE {<<Nil, out.ptext>>}

\* C9: once the control is observed, Result.Control holds what the control
\* behavior produced, whatever the candidates and the hooks do afterwards.
C9_ControlAsProduced ==
    (pc \notin {"start", "control"} /\ produced # NoOutcome) =>
        /\ r.Control.Name = name
        /\ <<r.Control.Value, r.Control.Err>> \in ControlOf(produced)

C9_Witness ==
    /\ Returned
    /\ produced.kind = "return"
    /\ produced.err # Nil
    /\ \E c \in Elems(r.Candidates) : c.Err # Nil /\ c.Err # r.Control.Err
    /\ Len(r.Errors) >= 3

\* C10: in every trial beforeRun is called once and the publisher once, and
\* the errorReporter once if Result.Errors is not empty and not at all
\* otherwise.
C10_HooksOncePerTrial ==
    pc \in {"done", "panicked"} =>
        /\ calls.beforeRun = 1
        /\ calls.publisher = 1
        /\ calls.errorReporter = (IF Len(r.Errors) > 0 THEN 1 ELSE 0)

\* C11: when beforeRun fails, a "before_run" ResultError is appended and the
\* trial goes on all the same: the control is observed, every candidate is
\* observed and classified, and the publisher is called.
C11_BeforeRunFailureContinues ==
    "before_run" \in hookFailed =>
        /\ Len(r.Errors) >= 1
        /\ r.Errors[1] = resultErr("before_run", "hookerr")
        /\ pc \in {"done", "panicked"} =>
              /\ r.Control # NilObs
              /\ \A n \in DOMAIN behaviors \ {name} : Settled(n)
              /\ calls.publisher = 1

\* Run keeps executing: every hook and behavior it calls comes back, so a
\* step that can be taken is taken
FairSpec == Spec /\ WF_vars(Next)

\* the hook failures of the trial so far, as the ResultErrors they should
\* have left: one per failed hook call
HookFailures ==
    Cardinality(hookFailed) + Cardinality(cmpFailed) + Cardinality(ignFailed)

\* C12: with a registered control, no failure of beforeRun, of the
\* comparator, of an ignore rule or of the publisher, in any combination,
\* aborts the trial: Run never panics, every step short of the return has a
\* next step, each behavior is observed once, and the returned Result holds
\* one ResultError for each hook failure.
C12_HookFailuresNeverAbort ==
    /\ [](name \in DOMAIN behaviors =>
            /\ pc # "panicked"
            /\ pc = "done" \/ ENABLED Next
            /\ Len(r.Errors) = HookFailures
            /\ "before_run" \in hookFailed <=> ErrorsOf("before_run") # {}
            /\ "publish" \in hookFailed <=> ErrorsOf("publish") # {}
            /\ Cardinality(ErrorsOf("compare")) = Cardinality(cmpFailed)
            /\ Cardinality(ErrorsOf("ignore")) = Cardinality(ignFailed)
            /\ Returned =>
                  /\ Len(invoked) = Cardinality(DOMAIN behaviors)
                  /\ Elems(invoked) = DOMAIN behaviors
                  /\ NameSet(r.Observations) = DOMAIN behaviors)
    /\ (name \in DOMAIN behaviors) ~> Returned

\* a trial in which every kind of hook failed has returned
C12_Witness ==
    /\ Returned
    /\ name \in DOMAIN behaviors
    /\ hookFailed = {"before_run", "publish"}
    /\ cmpFailed # {}
    /\ ignFailed # {}
    /\ Len(r.Candidates) = MaxCandidates

\* the operations a ResultError of Run is tagged with
Operations == {"before_run", "compare", "ignore", "publish"}

\* C13: every entry of Result.Errors is tagged before_run, compare, ignore or
\* publish and stands for one hook call that returned an error; the error or
\* panic of a behavior, control or candidate, adds none, so Result.Errors is
\* empty when no hook failed.
C13_OnlyHookFailures ==
    /\ \A k \in 1..Len(r.Errors) :
          /\ r.Errors[k].Operation \in Operations
          /\ r.Errors[k].Err \in HookErrors \ {Nil}
    /\ Cardinality(ErrorsOf("before_run")) =
          (IF "before_run" \in hookFailed THEN 1 ELSE 0)
    /\ Cardinality(ErrorsOf("publish")) =
          (IF "publish" \in hookFailed THEN 1 ELSE 0)
    /\ Cardinality(ErrorsOf("compare")) = Cardinality(cmpFailed)
    /\ Cardinality(ErrorsOf("ignore")) = Cardinality(ignFailed)
    /\ HookFailures = 0 => r.Errors = <<>>

\* a returned trial in which the control failed, one candidate failed and
\* another panicked, and no hook failed
C13_Witness ==
    /\ Returned
    /\ r.Errors = <<>>
    /\ r.Control.Err # Nil
    /\ Len(r.Candidates) = 2
    /\ r.Candidates[1].Err # Nil
    /\ r.Candidates[2].Err # Nil
    /\ Len(r.Mismatched) = 1
    /\ calls.errorReporter = 0

\* C14: an ignore rule is called only for a candidate found mismatched, never
\* for a matched one; the rules are called in their order in e.ignores, and
\* the first one that answers "ignore" ends the evaluation: no later rule is
\* called for that candidate, which is put in Ignored.
C14_IgnoreRulesShortCircuit ==
    /\ (pc = "ignore" \/ answer # NoAnswer) =>
          /\ current.Name \notin cmpMatched
          /\ args = hookArgs(r.Control, current)
    /\ pc = "ignore" =>
          /\ rule \in 0..numIgnores
          /\ answer = IF rule = 0 THEN NoAnswer
                      ELSE [rule |-> rule, ok |-> FALSE, err |-> Nil]
    /\ answer # NoAnswer => answer.rule \in 1..numIgnores
    /\ (answer.ok /\ answer.err = Nil) =>
          /\ pc = "loop"
          /\ ~ ENABLED IgnoreRule
          /\ r.Ignored # <<>>
          /\ r.Ignored[Len(r.Ignored)] = current
          /\ current \notin Elems(r.Mismatched)

\* the first of two rules has answered "ignore" for a mismatched candidate
C14_Witness ==
    /\ numIgnores = 2
    /\ answer = [rule |-> 1, ok |-> TRUE, err |-> Nil]
    /\ pc = "loop"
    /\ current \in Elems(r.Ignored)

\* C15: in every trial the control behavior is called first, before any
\* candidate, also when beforeRun failed; every registered behavior is called
\* exactly once in the trial, one after the other, and none is called again,
\* whether it failed, panicked or not.
C15_EachBehaviorOnceControlFirst ==
    /\ \A k, l \in 1..Len(invoked) : invoked[k] = invoked[l] => k = l
    /\ Elems(invoked) \subseteq DOMAIN behaviors
    /\ pc \in {"start", "control"} => invoked = <<>>
    /\ (name \in DOMAIN behaviors /\ pc \notin {"start", "control"}) =>
          /\ invoked # <<>>
          /\ invoked[1] = name
    /\ pc \in {"done", "panicked"} => Elems(invoked) = DOMAIN behaviors

\* a returned trial in which beforeRun failed, the control panicked and a
\* candidate failed: three behaviors, each called once, the control first
C15_Witness ==
    /\ Returned
    /\ "before_run" \in hookFailed
    /\ produced \in Outcomes
    /\ produced.kind = "panic"
    /\ Len(invoked) = 3
    /\ invoked[1] = name
    /\ r.Candidates[1].Err # Nil

\* the candidate called n has been put in a class: matched, Ignored or
\* Mismatched
Classified(n) ==
    n \in cmpMatched \cup NameSet(r.Ignored) \cup NameSet(r.Mismatched)

\* C16: the publisher is called only once the control and every candidate
\* have been observed and every candidate classified; the Result it is handed
\* has the Control, Observations, Candidates, Ignored and Mismatched of the
\* Result that Run returns; if the publisher fails, a "publish" ResultError
\* is appended to the returned Result.Errors.
C16_PublisherGetsAssembledResult ==
    /\ calls.publisher = 0 => published = EmptyResult
    /\ calls.publisher >= 1 =>
          /\ pc \in {"report", "done"}
          /\ todo = {}
          /\ r.Control # NilObs
          /\ NameSet(r.Candidates) = DOMAIN behaviors \ {name}
          /\ \A n \in DOMAIN behaviors \ {name} : Settled(n) /\ Classified(n)
          /\ published.Control = r.Control
          /\ published.Observations = r.Observations
          /\ published.Candidates = r.Candidates
          /\ published.Ignored = r.Ignored
          /\ published.Mismatched = r.Mismatched
          /\ r.Errors = IF "publish" \in hookFailed
                        THEN Append(published.Errors, resultErr("publish", "hookerr"))
                        ELSE published.Errors

\* Run has returned after a failed publisher that was handed a Result with
\* an ignored and a mismatched candidate
C16_Witness ==
    /\ Returned
    /\ "publish" \in hookFailed
    /\ published.Ignored # <<>>
    /\ published.Mismatched # <<>>
    /\ published.Control.Err # Nil
    /\ r.Errors[Len(r.Errors)].Operation = "publish"

\* C17: when ResultErrors were collected, the errorReporter is called after
\* the publisher and is passed, in one call, exactly the Result.Errors that
\* Run returns, a "publish" error included; the call changes no field of the
\* returned Result, which is as it was when the publisher returned.
C17_ErrorReporterGetsReturnedErrors ==
    /\ calls.errorReporter = 0 => reported = <<>>
    /\ calls.errorReporter >= 1 =>
          /\ calls.errorReporter = 1
          /\ calls.publisher = 1
          /\ pc = "done"
    /\ Returned =>
          /\ r.Errors # <<>> => calls.errorReporter = 1
          /\ reported = r.Errors
          /\ "publish" \in hookFailed =>
                reported[Len(reported)] = resultErr("publish", "hookerr")
          /\ r = [published EXCEPT !.Errors = reported]

\* Run has returned after the errorReporter was passed a "before_run", a
\* "compare", an "ignore" and a "publish" error
C17_Witness ==
    /\ Returned
    /\ calls.errorReporter = 1
    /\ Len(reported) >= 4
    /\ \A op \in Operations : \E k \in 1..Len(reported) : reported[k].Operation = op

\* the candidate the comparator was called for last
Compared == IF pc = "compare" THEN i - 1 ELSE i

\* C18: the comparator and the ignore rules are passed the Values of the
\* control's and the candidate's Observations and never their Err, so a
\* candidate's class depends on the two Values and on what the hooks return:
\* a candidate that failed or panicked and whose Value the comparator reports
\* equal to the control's is matched, in neither Ignored nor Mismatched.
C18_HooksSeeValuesOnly ==
    /\ args = IF Compared >= 1
              THEN <<r.Control.Value, r.Candidates[Compared].Value>>
              ELSE <<Nil, Nil>>
    /\ \A k \in 1..Compared :
          (r.Candidates[k].Err # Nil /\ r.Candidates[k].Name \in cmpMatched) =>
              /\ r.Candidates[k] \notin Elems(r.Ignored)
              /\ r.Candidates[k] \notin Elems(r.Mismatched)

\* Run has returned with a control that failed and a candidate that panicked,
\* both without a Value, which the comparator reported equal
C18_Witness ==
    /\ Returned
    /\ r.Control.Value = Nil
    /\ r.Control.Err # Nil
    /\ Len(r.Candidates) >= 1
    /\ r.Candidates[1].Value = Nil
    /\ r.Candidates[1].Err # Nil
    /\ r.Candidates[1].Err # r.Control.Err
    /\ r.Candidates[1].Name \in cmpMatched
    /\ r.Ignored = <<>>
    /\ r.Mismatched = <<>>

\* the ResultErrors the hook failures of the first k candidates of
\* r.Candidates leave, in the order of the steps that failed
RECURSIVE LoopErrors(_)
LoopErrors(k) ==
    IF k = 0 THEN <<>>
    ELSE LoopErrors(k - 1)
         \o (IF r.Candidates[k].Name \in cmpFailed
             THEN <<resultErr("compare", "hookerr")>> ELSE <<>>)
         \o (IF r.Candidates[k].Name \in ignFailed
             THEN <<resultErr("ignore", "hookerr")>> ELSE <<>>)

\* the ResultError a failure of beforeRun or of the publisher leaves
HookError(op) ==
    IF op \in hookFailed THEN <<resultErr(op, "hookerr")>> ELSE <<>>

\* C19: Result.Errors is in the order of the steps that failed: a
\* "before_run" error first, then for each candidate, in the order of
\* Candidates, at most one "compare" error followed by at most one "ignore"
\* error, and a "publish" error last; so it has at most
\* 2 + 2 * len(Candidates) entries, at most one of them "before_run" and at
\* most one "publish".
C19_ErrorsInStepOrder ==
    /\ r.Errors = HookError("before_run") \o LoopErrors(i) \o HookError("publish")
    /\ Len(r.Errors) <= 2 + 2 * Len(r.Candidates)
    /\ Cardinality(ErrorsOf("before_run")) <= 1
    /\ Cardinality(ErrorsOf("publish")) <= 1
    /\ \A k \in ErrorsOf("before_run") : k = 1
    /\ \A k \in ErrorsOf("publish") : k = Len(r.Errors)

\* Run has returned with the largest number of errors: every hook failed for
\* every candidate
C19_Witness ==
    /\ Returned
    /\ Len(r.Candidates) = MaxCandidates
    /\ Len(r.Errors) = 2 + 2 * Len(r.Candidates)
    /\ NamesOf(r.Candidates) = <<"candidate2", "candidate">>

\* where the Observation o is in r.Candidates, 0 if it is not there
PositionOf(o) ==
    IF o \in Elems(r.Candidates)
    THEN CHOOSE k \in 1..Len(r.Candidates) : r.Candidates[k] = o
    ELSE 0

\* the members of s are members of r.Candidates, in the order they have there
InCandidatesOrder(s) ==
    /\ \A a \in 1..Len(s) : PositionOf(s[a]) >= 1
    /\ \A a, b \in 1..Len(s) : a < b => PositionOf(s[a]) < PositionOf(s[b])

\* C20: in the Result returned by Run, Observations[i+1] is Candidates[i] for
\* every index i of Candidates, each registered name other than the control's
\* occurs exactly once in Candidates, and Ignored and Mismatched each list
\* their members in the order these have in Candidates.
C20_CandidatesAlignedAndOrdered ==
    Returned =>
        /\ Len(r.Observations) = Len(r.Candidates) + 1
        /\ \A k \in 1..Len(r.Candidates) : r.Observations[k + 1] = r.Candidates[k]
        /\ \A n \in DOMAIN behaviors \ {name} :
              Cardinality({k \in 1..Len(r.Candidates) : r.Candidates[k].Name = n}) = 1
        /\ \A k \in 1..Len(r.Candidates) :
              r.Candidates[k].Name \in DOMAIN behaviors \ {name}
        /\ InCandidatesOrder(r.Ignored)
        /\ InCandidatesOrder(r.Mismatched)

\* Run has returned with two candidates, both ignored
C20_Witness ==
    /\ Returned
    /\ Len(r.Candidates) = 2
    /\ Len(r.Ignored) = 2
    /\ r.Ignored[1] # r.Ignored[2]

=============================================================================
